---------------------------- MODULE Spec2Model ----------------------------
(***************************************************************************)
(* A model of change-up.py: the ChangeUp goal, the field of nine goals,    *)
(* the players' moves, a game of ten rounds, the round-robin tournament    *)
(* and the evaluation of a population of genomes.                          *)
(*                                                                         *)
(* A slot of a goal holds a one-character string: "." (empty), "R" or "B"  *)
(* (a ball of that color) or "-" (what de_score writes into the top slot). *)
(***************************************************************************)
EXTENDS Integers, Sequences, FiniteSets, TLC

VARIABLES
    g,          \* a Goal object on its own: [bottom, middle, top]
    log,        \* the calls made on g so far, oldest first
    goals,      \* Field.goals: the nine Goal objects of the field, 0..8
    arena,      \* the goals this run's callers pick from
    fop,        \* the last call made on the field: "update" (a score or a
                \* de_score), "get_score" or "get_descriptors"
    fscore,     \* what Field.get_score() returned, if it was the last call
    fdesc,      \* what Field.get_descriptors() returned, if it was the last
                \* call
    fcall,      \* the last Field.score() call: its arguments and outcome
    players,    \* the roster: a sequence of Player objects
    rounds,     \* the argument rounds of play_a_tournament
    pc,         \* where the run is: "eval", "start", "loop", "p1", "p2",
                \* "game_over", "returned", "eval_done"
    tround,     \* the loop variable _ of play_a_tournament
    ti,         \* the loop variable i of play_a_tournament
    tj,         \* the loop variable j of play_a_tournament
    rnd,        \* the loop variable i of play_a_game
    wins,       \* wins of play_a_tournament, indexed from 0
    high_score, \* high_score of play_a_tournament
    total_score, \* total_score of play_a_tournament
    moves,      \* the make_move calls of the running game, per color
    last,       \* the last make_move call: who moved and what was chosen
    games,      \* the games played so far, oldest first: <<i, j>>
    results,    \* field.get_score() of each of these games
    genomes,    \* the argument genomes of eval_genomes: the genome objects
    fitness,    \* genome.fitness of each of these genomes
    report      \* what eval_genomes printed: the high score and the average

gvars == <<g, log>>

fvars == <<goals, arena, fop, fscore, fdesc, fcall>>

\* a game
mvars == <<rnd, moves, last>>

\* a tournament
tvars == <<players, rounds, pc, tround, ti, tj, wins, high_score, total_score,
           games, results>>

\* an evaluation of a population
evars == <<genomes, fitness, report>>

vars == <<g, log, goals, arena, fop, fscore, fdesc, fcall, players, rounds, pc,
          tround, ti, tj, rnd, wins, high_score, total_score, moves, last,
          games, results, genomes, fitness, report>>

-----------------------------------------------------------------------------
(* Bounds of the model *)

\* calls made on the single goal of SpecGoal
MaxCalls == 5

\* the players of SpecMatch pick from ArenaSize goals
ArenaSize == 1

\* the callers of SpecIndex make at most MaxFieldCalls calls of Field.score,
\* with indices up to MaxBeyond below -NumGoals and above NumGoals - 1
MaxFieldCalls == 2

MaxBeyond == 1

\* the populations of SpecEval hold at most MaxGenomes genomes
MaxGenomes == 3

\* the rosters of SpecTournament hold at most MaxPlayers players
MaxPlayers == 4

\* the tournaments of SpecTournament run at most MaxRounds rounds
MaxRounds == 2

-----------------------------------------------------------------------------
(* class Goal *)

\* the colors play_a_game passes to make_move
Colors == {"R", "B"}

\* Goal.__init__
Goal_init == [bottom |-> ".", middle |-> ".", top |-> "."]

\* Goal.score with the full-goal test made on the middle slot
Goal_score_FullAtMiddle(gl, color) ==
    IF gl.middle # "."
    THEN [goal |-> gl, ret |-> FALSE]
    ELSE IF gl.bottom = "."
         THEN [goal |-> [gl EXCEPT !.bottom = color], ret |-> TRUE]
         ELSE [goal |-> [gl EXCEPT !.middle = color], ret |-> TRUE]

\* Goal.score(color): the goal afterwards and the value returned
Goal_score(gl, color) ==
    IF gl.top # "."
    THEN [goal |-> gl, ret |-> FALSE]
    ELSE IF gl.bottom = "."
         THEN [goal |-> [gl EXCEPT !.bottom = color], ret |-> TRUE]
         ELSE IF gl.middle = "."
              THEN [goal |-> [gl EXCEPT !.middle = color], ret |-> TRUE]
              ELSE [goal |-> [gl EXCEPT !.top = color], ret |-> TRUE]

\* Goal.de_score with the guard comparing bottom against the empty marker
Goal_de_score_GuardEmpty(gl) ==
    IF gl.bottom = "."
    THEN [goal |-> gl, ret |-> FALSE]
    ELSE [goal |-> [bottom |-> gl.middle, middle |-> gl.top, top |-> "-"],
          ret |-> TRUE]

\* Goal.de_score taking the bottom ball out without sliding the others down
Goal_de_score_NoSlide(gl) ==
    IF gl.bottom = ","
    THEN [goal |-> gl, ret |-> FALSE]
    ELSE [goal |-> [bottom |-> ".", middle |-> gl.middle, top |-> "-"],
          ret |-> TRUE]

\* Goal.de_score leaving the top slot empty
Goal_de_score_TopEmpty(gl) ==
    IF gl.bottom = ","
    THEN [goal |-> gl, ret |-> FALSE]
    ELSE [goal |-> [bottom |-> gl.middle, middle |-> gl.top, top |-> "."],
          ret |-> TRUE]

\* Goal.de_score(): the goal afterwards and the value returned
Goal_de_score(gl) ==
    IF gl.bottom = ","
    THEN [goal |-> gl, ret |-> FALSE]
    ELSE [goal |-> [bottom |-> gl.middle, middle |-> gl.top, top |-> "-"],
          ret |-> TRUE]

\* Goal.owned_by()
Goal_owned_by(gl) ==
    IF gl.top # "."
    THEN gl.top
    ELSE IF gl.middle # "."
         THEN gl.middle
         ELSE gl.bottom

\* Goal.get_score(): <<red, blue>>, one point for each ball in the goal
Goal_get_score(gl) ==
    LET count(color) == (IF gl.bottom = color THEN 1 ELSE 0)
                        + (IF gl.middle = color THEN 1 ELSE 0)
                        + (IF gl.top = color THEN 1 ELSE 0)
    IN  <<count("R"), count("B")>>

-----------------------------------------------------------------------------
(* class Field *)

\* range(9) of Field.__init__
NumGoals == 9

GoalIdx == 0..(NumGoals - 1)

\* Field.__init__
Field_init == [k \in GoalIdx |-> Goal_init]

\* self.goals[goal]: the position a Python list of nine items reads for an
\* index, NumGoals standing for the IndexError
ListIndex(goal) ==
    IF goal >= 0 /\ goal < NumGoals THEN goal
    ELSE IF goal < 0 /\ goal >= -NumGoals THEN goal + NumGoals
    ELSE NumGoals

\* Field.score(goal, color): the goals afterwards, the value returned and
\* whether the call raised
Field_score(gs, goal, color) ==
    IF ListIndex(goal) = NumGoals
    THEN [goals |-> gs, ret |-> FALSE, raised |-> TRUE]
    ELSE LET r == Goal_score(gs[ListIndex(goal)], color) IN
         [goals |-> [gs EXCEPT ![ListIndex(goal)] = r.goal],
          ret |-> r.ret, raised |-> FALSE]

\* the six points of Field.get_score for a row owned
RowPoints == 6

\* rows of Field.get_score
rows == << <<0, 1, 2>>, <<3, 4, 5>>, <<6, 7, 8>>, <<0, 3, 6>>,
           <<1, 4, 7>>, <<2, 5, 8>>, <<0, 4, 8>>, <<2, 4, 6>> >>

\* the first loop of Field.get_score: the goals' own scores, summed from
\* goal k on
RECURSIVE SumGoals(_, _)
SumGoals(gs, k) ==
    IF k = NumGoals
    THEN <<0, 0>>
    ELSE LET goal_score == Goal_get_score(gs[k])
             rest == SumGoals(gs, k + 1)
         IN  <<goal_score[1] + rest[1], goal_score[2] + rest[2]>>

\* the second loop of Field.get_score: the points of one color for the rows
\* from the n-th on
RECURSIVE RowBonus(_, _, _)
RowBonus(gs, color, n) ==
    IF n > Len(rows)
    THEN 0
    ELSE LET row == rows[n] IN
         (IF /\ Goal_owned_by(gs[row[1]]) = color
             /\ Goal_owned_by(gs[row[2]]) = color
             /\ Goal_owned_by(gs[row[3]]) = color
          THEN RowPoints ELSE 0) + RowBonus(gs, color, n + 1)

\* Field.get_score with the last row read as (2,4,8)
Field_get_score_WrongDiagonal(gs) ==
    LET fix(row) == IF row = <<2, 4, 6>> THEN <<2, 4, 8>> ELSE row
        owns(color, row) == \A m \in 1..3 : Goal_owned_by(gs[fix(row)[m]]) = color
        bonus(color) == RowPoints * Cardinality({n \in 1..Len(rows) : owns(color, rows[n])})
    IN  <<SumGoals(gs, 0)[1] + bonus("R"), SumGoals(gs, 0)[2] + bonus("B")>>

\* Field.get_score adding the points of every row to red's total
Field_get_score_BonusToRed(gs) ==
    <<SumGoals(gs, 0)[1] + RowBonus(gs, "R", 1) + RowBonus(gs, "B", 1),
      SumGoals(gs, 0)[2]>>

\* Field.get_score(): <<red, blue>>
Field_get_score(gs) ==
    <<SumGoals(gs, 0)[1] + RowBonus(gs, "R", 1),
      SumGoals(gs, 0)[2] + RowBonus(gs, "B", 1)>>

\* Goal.descriptor with the digits in the order bottom, middle, top
Goal_descriptor_BottomFirst(gl) ==
    (IF gl.bottom = "R" THEN 200 ELSE 0) + (IF gl.bottom = "B" THEN 100 ELSE 0)
    + (IF gl.middle = "R" THEN 20 ELSE 0) + (IF gl.middle = "B" THEN 10 ELSE 0)
    + (IF gl.top = "R" THEN 2 ELSE 0) + (IF gl.top = "B" THEN 1 ELSE 0)

\* Goal.descriptor(): the three digit code (top, middle, bottom; 2 for red,
\* 1 for blue, 0 otherwise); the float returned is this code / 1000.0
Goal_descriptor(gl) ==
    (IF gl.bottom = "R" THEN 2 ELSE 0) + (IF gl.bottom = "B" THEN 1 ELSE 0)
    + (IF gl.middle = "R" THEN 20 ELSE 0) + (IF gl.middle = "B" THEN 10 ELSE 0)
    + (IF gl.top = "R" THEN 200 ELSE 0) + (IF gl.top = "B" THEN 100 ELSE 0)

\* Field.get_descriptors(): the descriptors of the goals 0..8, in order
Field_get_descriptors(gs) == [n \in 1..NumGoals |-> Goal_descriptor(gs[n - 1])]

-----------------------------------------------------------------------------
(* class Player *)

\* the length of the network's output: 9 scoring and 9 de-scoring outputs
NumOutputs == 18

\* an output vector that is hi at the (0-based) positions in S, lo elsewhere
Vec(S, hi, lo) == [n \in 1..NumOutputs |-> IF (n - 1) \in S THEN hi ELSE lo]

\* the output vectors a network of unknown weights is taken to return in a
\* run whose callers pick from the goals in ar: a single maximum at each
\* scoring and each de-scoring output of these goals, the same with all
\* values negative, a maximum shared by the scoring and the de-scoring
\* output of a goal, a maximum shared by two de-scoring outputs, all equal
FreeVectors(ar) ==
    {Vec({k}, 1, 0) : k \in ar \cup {k + 9 : k \in ar}}
    \cup {Vec({k + 9}, -1, -2) : k \in ar}
    \cup {Vec({k, k + 9}, 2, 1) : k \in ar}
    \cup {Vec({k + 9 : k \in ar}, 3, 0), Vec({}, 0, 0)}

\* the first goal whose descriptor input is 0, NumGoals if there is none
RECURSIVE FirstZero(_, _)
FirstZero(input, k) ==
    IF k = NumGoals THEN NumGoals
    ELSE IF input[k + 2] = 0 THEN k
    ELSE FirstZero(input, k + 1)

\* the first goal of the row, from its m-th goal on, whose descriptor input
\* is at most hi, NumGoals if there is none
RECURSIVE FirstInRow(_, _, _, _)
FirstInRow(input, row, hi, m) ==
    IF m > Len(row) THEN NumGoals
    ELSE IF input[row[m] + 2] <= hi THEN row[m]
    ELSE FirstInRow(input, row, hi, m + 1)

\* the goal a network that plays for one row scores at: the first goal of
\* the row whose descriptor is at most hi, else the first goal of the row
\* whose top slot is empty (a descriptor below 100), else the first goal of
\* the row
RowTarget(input, row, hi) ==
    IF FirstInRow(input, row, hi, 1) < NumGoals
    THEN FirstInRow(input, row, hi, 1)
    ELSE IF FirstInRow(input, row, 99, 1) < NumGoals
    THEN FirstInRow(input, row, 99, 1)
    ELSE row[1]

\* self.net.activate(input): the vectors the network may return.  A network
\* is a function of its input; these are modelled: "const" (the same single
\* maximum at output k for every input), "first_empty" (a single maximum at
\* the scoring output of the first goal whose descriptor is 0, all outputs
\* equal when there is none), "row_fill" (a single maximum at the scoring
\* output of the first goal of row k whose descriptor is 0, then of the
\* first one with room), "row_stack" (a single maximum at the scoring
\* output of the first goal of row k with room), "free" (any of
\* FreeVectors).
NetOutputs(net, input, ar) ==
    CASE net.kind = "const" -> {Vec({net.k}, 1, 0)}
      [] net.kind = "first_empty" ->
            {Vec({FirstZero(input, 0)} \ {NumGoals}, 1, 0)}
      [] net.kind = "row_fill" ->
            {Vec({RowTarget(input, rows[net.k], 0)}, 1, 0)}
      [] net.kind = "row_stack" ->
            {Vec({RowTarget(input, rows[net.k], 99)}, 1, 0)}
      [] OTHER -> FreeVectors(ar)

\* max(output), over the first n values
RECURSIVE MaxOf(_, _)
MaxOf(output, n) ==
    IF n = 1 THEN output[1]
    ELSE LET m == MaxOf(output, n - 1) IN
         IF output[n] > m THEN output[n] ELSE m

\* output.index(v): the 0-based position of the first value equal to v,
\* scanning from position k
RECURSIVE IndexFrom(_, _, _)
IndexFrom(output, v, k) ==
    IF output[k + 1] = v THEN k ELSE IndexFrom(output, v, k + 1)

\* output.index(max(output)) taking the last position that holds the maximum
max_output_idx_Last(output) ==
    CHOOSE k \in 0..(Len(output) - 1) :
        /\ output[k + 1] = MaxOf(output, Len(output))
        /\ \A n \in (k + 1)..(Len(output) - 1) : output[n + 1] # output[k + 1]

\* output.index(max(output))
max_output_idx(output) == IndexFrom(output, MaxOf(output, Len(output)), 0)

\* Player.random_choice(field, color) when random.randint(0,8) returns draw:
\* the goals afterwards
Player_random_choice(gs, color, draw) ==
    [gs EXCEPT ![draw] = Goal_score(gs[draw], color).goal]

\* the input of the network: 1.0 for red and -1.0 for blue, then the nine
\* descriptors (all in thousandths)
input_list(gs, color) ==
    <<IF color = "R" THEN 1000 ELSE -1000>> \o Field_get_descriptors(gs)

\* Player.neat_choice(field, color) when the network returns output: the
\* goals afterwards
Player_neat_choice(gs, color, output) ==
    LET idx == max_output_idx(output) IN
    IF idx < 9
    THEN [gs EXCEPT ![idx] = Goal_score(gs[idx], color).goal]
    ELSE [gs EXCEPT ![idx - 9] = Goal_de_score(gs[idx - 9]).goal]

\* Player.make_move(field, color): the moves the player may make, each with
\* the goals afterwards
Player_make_move(player, gs, color, ar) ==
    IF player.strategy = "random"
    THEN {[strategy |-> "random", color |-> color, draw |-> draw,
           output |-> <<>>,
           goals |-> Player_random_choice(gs, color, draw)] : draw \in ar}
    ELSE IF player.strategy = "neat-ai"
    THEN {[strategy |-> "neat-ai", color |-> color, draw |-> -1,
           output |-> output,
           goals |-> Player_neat_choice(gs, color, output)] :
              output \in NetOutputs(player.net, input_list(gs, color), ar)}
    ELSE {[strategy |-> player.strategy, color |-> color, draw |-> -1,
           output |-> <<>>, goals |-> gs]}

-----------------------------------------------------------------------------
(* play_a_game *)

\* range(10) of play_a_game
NumRounds == 10

\* for i in range(10) with one round less
GameContinues_OneLess(i) == i < NumRounds - 1

\* for i in range(10): whether the loop runs its body for i
GameContinues(i) == i < NumRounds

\* no move made yet
NoMove == [strategy |-> "none", color |-> ".", draw |-> -1, output |-> <<>>]

\* the record of a move, without the goals
MoveOf(mv) == [strategy |-> mv.strategy, color |-> mv.color, draw |-> mv.draw,
               output |-> mv.output]

\* player1.make_move(field, 'R')
MoveP1 ==
    /\ pc = "p1"
    /\ \E mv \in Player_make_move(players[ti + 1], goals, "R", arena) :
         /\ goals' = mv.goals
         /\ last' = MoveOf(mv)
    /\ moves' = [moves EXCEPT !["R"] = @ + 1]
    /\ pc' = "p2"
    /\ UNCHANGED <<rnd, players, rounds, tround, ti, tj, wins, high_score,
                   total_score, games, results, gvars, evars,
                   arena, fop, fscore, fdesc, fcall>>

\* player2.make_move(field, 'B') and the end of the round
MoveP2 ==
    /\ pc = "p2"
    /\ \E mv \in Player_make_move(players[tj + 1], goals, "B", arena) :
         /\ goals' = mv.goals
         /\ last' = MoveOf(mv)
    /\ moves' = [moves EXCEPT !["B"] = @ + 1]
    /\ rnd' = rnd + 1
    /\ pc' = IF GameContinues(rnd + 1) THEN "p1" ELSE "game_over"
    /\ UNCHANGED <<players, rounds, tround, ti, tj, wins, high_score,
                   total_score, games, results, gvars, evars,
                   arena, fop, fscore, fdesc, fcall>>

\* a game starts
GameStart ==
    /\ goals = Field_init
    /\ rnd = 0
    /\ moves = [c \in Colors |-> 0]
    /\ last = NoMove

-----------------------------------------------------------------------------
(* play_a_tournament *)

\* len(players)
NumPlayers == Len(players)

\* the larger of the two totals: max(score)
MaxScore(score) == IF score[1] >= score[2] THEN score[1] ELSE score[2]

\* if i != j, taken as always true
PlaysGame_Always(i, j) == TRUE

\* if i != j: players don't play themselves
PlaysGame(i, j) == i # j

\* field = Field() made once, before the loops: the game goes on with the
\* field gs of the game before
Field_new_Reused(gs) == gs

\* field = Field(): the field the game is played on, gs being the field of
\* the game before
Field_new(gs) == Field_init

\* the update of wins that also counts a tie for red
CollectWins_TieForRed(w, i, j, score) ==
    IF score[1] >= score[2]
    THEN [w EXCEPT ![i] = @ + 1]
    ELSE [w EXCEPT ![j] = @ + 1]

\* the update of wins after the game of i (red) against j (blue)
CollectWins(w, i, j, score) ==
    IF score[1] > score[2]
    THEN [w EXCEPT ![i] = @ + 1]
    ELSE IF score[2] > score[1]
         THEN [w EXCEPT ![j] = @ + 1]
         ELSE w

\* the update of high_score that looks at red's total only
CollectHigh_RedOnly(h, score) == IF score[1] > h THEN score[1] ELSE h

\* the update of high_score
CollectHigh(h, score) == IF MaxScore(score) > h THEN MaxScore(score) ELSE h

\* the update of total_score
CollectTotal(t, score) == t + (score[1] + score[2])

\* where the three nested loops go after the body for (r, i, j)
Advance(r, i, j) ==
    IF j + 1 < NumPlayers
    THEN [pc |-> "loop", tround |-> r, ti |-> i, tj |-> j + 1]
    ELSE IF i + 1 < NumPlayers
    THEN [pc |-> "loop", tround |-> r, ti |-> i + 1, tj |-> 0]
    ELSE IF r + 1 < rounds
    THEN [pc |-> "loop", tround |-> r + 1, ti |-> 0, tj |-> 0]
    ELSE [pc |-> "returned", tround |-> r, ti |-> i, tj |-> j]

GoTo(pos) ==
    /\ pc' = pos.pc
    /\ tround' = pos.tround
    /\ ti' = pos.ti
    /\ tj' = pos.tj

\* play_a_tournament is entered: the statistics are set up and the loops
\* begin
TStart ==
    /\ pc = "start"
    /\ high_score' = 0
    /\ total_score' = 0
    /\ wins' = [k \in 0..(NumPlayers - 1) |-> 0]
    /\ pc' = IF rounds > 0 /\ NumPlayers > 0 THEN "loop" ELSE "returned"
    /\ UNCHANGED <<players, rounds, tround, ti, tj, games, results, goals,
                   rnd, moves, last, gvars, evars,
                   arena, fop, fscore, fdesc, fcall>>

\* the body of the loops for i = j: nothing is played
TSkipSelf ==
    /\ pc = "loop"
    /\ ~PlaysGame(ti, tj)
    /\ GoTo(Advance(tround, ti, tj))
    /\ UNCHANGED <<players, rounds, wins, high_score, total_score, games,
                   results, goals, rnd, moves, last, gvars, evars,
                   arena, fop, fscore, fdesc, fcall>>

\* the body of the loops for i != j: a new Field, and play_a_game is
\* entered
TStartGame ==
    /\ pc = "loop"
    /\ PlaysGame(ti, tj)
    /\ goals' = Field_new(goals)
    /\ rnd' = 0
    /\ moves' = [c \in Colors |-> 0]
    /\ last' = NoMove
    /\ games' = Append(games, <<ti, tj>>)
    /\ pc' = "p1"
    /\ UNCHANGED <<players, rounds, tround, ti, tj, wins, high_score,
                   total_score, results, gvars, evars,
                   arena, fop, fscore, fdesc, fcall>>

\* play_a_game has returned: the statistics are collected and the loops go
\* on
TCollect ==
    /\ pc = "game_over"
    /\ LET score == Field_get_score(goals) IN
         /\ wins' = CollectWins(wins, ti, tj, score)
         /\ total_score' = CollectTotal(total_score, score)
         /\ high_score' = CollectHigh(high_score, score)
         /\ results' = Append(results, score)
    /\ GoTo(Advance(tround, ti, tj))
    /\ UNCHANGED <<players, rounds, games, goals, rnd, moves, last, gvars, evars,
                   arena, fop, fscore, fdesc, fcall>>

-----------------------------------------------------------------------------
(* eval_genomes *)

\* rounds=1, the default of play_a_tournament that eval_genomes takes
DefaultRounds == 1

\* the 99 of the average that eval_genomes prints
GamesPerPlayer == 99

\* the loop over the genomes: the fitness of each is set to 0
ResetFitness(ge) == [k \in 1..Len(ge) |-> 0]

\* the loop over the genomes: the player built for each of them, in order
BuildPlayers(ge) ==
    [k \in 1..Len(ge) |-> [strategy |-> "neat-ai", net |-> ge[k].net]]

\* ge[i].fitness = wins[len(wins) - 1 - i]: the wins written back in the
\* reverse order
WriteBack_Reversed(fit, w) ==
    [k \in 1..Len(fit) |->
        IF (k - 1) \in DOMAIN w THEN w[Len(fit) - k] ELSE fit[k]]

\* for i in range(len(wins)): ge[i].fitness = wins[i]
WriteBack(fit, w) ==
    [k \in 1..Len(fit) |-> IF (k - 1) \in DOMAIN w THEN w[k - 1] ELSE fit[k]]

\* what eval_genomes prints: the high score and the average, the quotient
\* total_score / (len(wins) * 99), which raises ZeroDivisionError when the
\* divisor is 0
Printed(high, total, w) ==
    [high |-> high, num |-> total,
     den |-> Cardinality(DOMAIN w) * GamesPerPlayer,
     raised |-> Cardinality(DOMAIN w) * GamesPerPlayer = 0]

\* eval_genomes is entered: the fitness of every genome is reset, a player
\* is built for every genome, and play_a_tournament is called
EStart ==
    /\ pc = "eval"
    /\ fitness' = ResetFitness(genomes)
    /\ players' = BuildPlayers(genomes)
    /\ rounds' = DefaultRounds
    /\ pc' = "start"
    /\ UNCHANGED <<genomes, report, tround, ti, tj, wins, high_score,
                   total_score, games, results, goals, rnd, moves, last,
                   gvars, arena, fop, fscore, fdesc, fcall>>

\* play_a_tournament has returned: the wins are written back and the high
\* score and the average are printed
EFinish ==
    /\ pc = "returned"
    /\ fitness' = WriteBack(fitness, wins)
    /\ report' = Printed(high_score, total_score, wins)
    /\ pc' = "eval_done"
    /\ UNCHANGED <<genomes, players, rounds, tround, ti, tj, wins, high_score,
                   total_score, games, results, goals, rnd, moves, last,
                   gvars, arena, fop, fscore, fdesc, fcall>>

-----------------------------------------------------------------------------
(* SpecGoal: one Goal, called in any order *)

\* Field.score() was not called
NoCall == [goal |-> 0, color |-> ".", ret |-> FALSE, raised |-> FALSE, n |-> 0]

\* no Field exists
NoField ==
    /\ goals = Field_init
    /\ arena = {}
    /\ fop = "none"
    /\ fscore = <<0, 0>>
    /\ fdesc = <<>>
    /\ fcall = NoCall

\* no game and no tournament is running
NoGame ==
    /\ players = <<>>
    /\ rounds = 0
    /\ pc = "none"
    /\ tround = 0
    /\ ti = 0
    /\ tj = 0
    /\ rnd = 0
    /\ wins = <<>>
    /\ high_score = 0
    /\ total_score = 0
    /\ moves = [c \in Colors |-> 0]
    /\ last = NoMove
    /\ games = <<>>
    /\ results = <<>>

\* no Goal exists outside a Field
NoGoal ==
    /\ g = Goal_init
    /\ log = <<>>

\* eval_genomes is not running
NoEval ==
    /\ genomes = <<>>
    /\ fitness = <<>>
    /\ report = [high |-> 0, num |-> 0, den |-> 1, raised |-> FALSE]

GoalInit ==
    /\ g = Goal_init
    /\ log = <<>>
    /\ NoField
    /\ NoGame
    /\ NoEval

\* a call of g.score(color)
GScore ==
    /\ Len(log) < MaxCalls
    /\ \E color \in Colors :
         LET r == Goal_score(g, color) IN
         /\ g' = r.goal
         /\ log' = Append(log, [op |-> "score", arg |-> color, pre |-> g,
                                post |-> r.goal, ret |-> r.ret])
    /\ UNCHANGED <<fvars, mvars, tvars, evars>>

\* a call of g.de_score()
GDeScore ==
    /\ Len(log) < MaxCalls
    /\ LET r == Goal_de_score(g) IN
         /\ g' = r.goal
         /\ log' = Append(log, [op |-> "de_score", arg |-> ".", pre |-> g,
                                post |-> r.goal, ret |-> r.ret])
    /\ UNCHANGED <<fvars, mvars, tvars, evars>>

\* a call of g.owned_by()
GOwnedBy ==
    /\ Len(log) < MaxCalls
    /\ g' = g
    /\ log' = Append(log, [op |-> "owned_by", arg |-> ".", pre |-> g,
                           post |-> g, ret |-> Goal_owned_by(g)])
    /\ UNCHANGED <<fvars, mvars, tvars, evars>>

\* a call of g.descriptor()
GDescriptor ==
    /\ Len(log) < MaxCalls
    /\ g' = g
    /\ log' = Append(log, [op |-> "descriptor", arg |-> ".", pre |-> g,
                           post |-> g, ret |-> Goal_descriptor(g)])
    /\ UNCHANGED <<fvars, mvars, tvars, evars>>

GoalNext == GScore \/ GDeScore \/ GOwnedBy \/ GDescriptor

SpecGoal == GoalInit /\ [][GoalNext]_vars

-----------------------------------------------------------------------------
(* SpecField: one Field; its callers score into, de-score and read the     *)
(* goals of one row                                                        *)

\* the sets of goals the callers of one run pick from: the rows
Arenas == {{rows[n][m] : m \in 1..3} : n \in 1..Len(rows)}

FieldInit ==
    /\ goals = Field_init
    /\ arena \in Arenas
    /\ fop = "update"
    /\ fscore = <<0, 0>>
    /\ fdesc = <<>>
    /\ fcall = NoCall
    /\ NoGoal
    /\ NoGame
    /\ NoEval

\* a call of field.score(goal, color)
FScore ==
    \E goal \in arena, color \in Colors :
        /\ goals' = Field_score(goals, goal, color).goals
        /\ fop' = "update"
        /\ fscore' = <<0, 0>>
        /\ fdesc' = <<>>
        /\ UNCHANGED <<arena, fcall, gvars, mvars, tvars, evars>>

\* a call of field.goals[goal].de_score()
FDeScore ==
    \E goal \in arena :
        /\ goals' = [goals EXCEPT ![goal] = Goal_de_score(goals[goal]).goal]
        /\ fop' = "update"
        /\ fscore' = <<0, 0>>
        /\ fdesc' = <<>>
        /\ UNCHANGED <<arena, fcall, gvars, mvars, tvars, evars>>

\* a call of field.get_score()
FGetScore ==
    /\ fop # "get_score"
    /\ fop' = "get_score"
    /\ fscore' = Field_get_score(goals)
    /\ fdesc' = <<>>
    /\ UNCHANGED <<goals, arena, fcall, gvars, mvars, tvars, evars>>

\* a call of field.get_descriptors()
FGetDescriptors ==
    /\ fop # "get_descriptors"
    /\ fop' = "get_descriptors"
    /\ fdesc' = Field_get_descriptors(goals)
    /\ fscore' = <<0, 0>>
    /\ UNCHANGED <<goals, arena, fcall, gvars, mvars, tvars, evars>>

FieldNext == FScore \/ FDeScore \/ FGetScore \/ FGetDescriptors

SpecField == FieldInit /\ [][FieldNext]_vars

-----------------------------------------------------------------------------
(* SpecIndex: one Field; its callers call Field.score with any integer     *)
(* near the range of the list of goals                                     *)

Indices == (-NumGoals - MaxBeyond)..(NumGoals - 1 + MaxBeyond)

IndexInit ==
    /\ goals = Field_init
    /\ arena = {}
    /\ fop = "update"
    /\ fscore = <<0, 0>>
    /\ fdesc = <<>>
    /\ fcall = NoCall
    /\ NoGoal
    /\ NoGame
    /\ NoEval

\* a call of field.score(goal, color)
IScore ==
    /\ fcall.n < MaxFieldCalls
    /\ \E goal \in Indices, color \in Colors :
         LET r == Field_score(goals, goal, color) IN
         /\ goals' = r.goals
         /\ fcall' = [goal |-> goal, color |-> color, ret |-> r.ret,
                      raised |-> r.raised, n |-> fcall.n + 1]
    /\ UNCHANGED <<arena, fop, fscore, fdesc, gvars, mvars, tvars, evars>>

IndexNext == IScore

SpecIndex == IndexInit /\ [][IndexNext]_vars

-----------------------------------------------------------------------------
(* SpecMatch: one call of play_a_game on a new Field, for two players of   *)
(* either strategy; the network of a neat-ai player is any function        *)

\* a player that draws its goals, and one whose network is unknown
RandomPlayer == [strategy |-> "random", net |-> [kind |-> "none", k |-> 0]]
FreePlayer == [strategy |-> "neat-ai", net |-> [kind |-> "free", k |-> 0]]

\* the goals the players of one game pick from: the first, the last or both
MatchArenas == {ar \in SUBSET {0, NumGoals - 1} : Cardinality(ar) = ArenaSize}

MatchInit ==
    /\ players \in [1..2 -> {RandomPlayer, FreePlayer}]
    /\ arena \in MatchArenas
    /\ pc = "p1"
    /\ ti = 0
    /\ tj = 1
    /\ GameStart
    /\ rounds = 0
    /\ tround = 0
    /\ wins = <<>>
    /\ high_score = 0
    /\ total_score = 0
    /\ games = <<>>
    /\ results = <<>>
    /\ fop = "none"
    /\ fscore = <<0, 0>>
    /\ fdesc = <<>>
    /\ fcall = NoCall
    /\ NoGoal
    /\ NoEval

MatchNext == MoveP1 \/ MoveP2

SpecMatch == MatchInit /\ [][MatchNext]_vars

-----------------------------------------------------------------------------
(* SpecLines: one call of play_a_game on a new Field, for two players      *)
(* whose networks each play for one of the eight rows                      *)

\* the players whose network plays for one row
RowPlayers ==
    {[strategy |-> "neat-ai", net |-> [kind |-> kind, k |-> n]] :
        kind \in {"row_fill", "row_stack"}, n \in 1..Len(rows)}

LinesInit ==
    /\ players \in [1..2 -> RowPlayers]
    /\ arena = {}
    /\ pc = "p1"
    /\ ti = 0
    /\ tj = 1
    /\ GameStart
    /\ rounds = 0
    /\ tround = 0
    /\ wins = <<>>
    /\ high_score = 0
    /\ total_score = 0
    /\ games = <<>>
    /\ results = <<>>
    /\ fop = "none"
    /\ fscore = <<0, 0>>
    /\ fdesc = <<>>
    /\ fcall = NoCall
    /\ NoGoal
    /\ NoEval

LinesNext == MoveP1 \/ MoveP2

SpecLines == LinesInit /\ [][LinesNext]_vars

-----------------------------------------------------------------------------
(* SpecTournament: one call of play_a_tournament(players, rounds)          *)

\* neat-ai players whose networks always de-score goal 0, and always score
\* into the first goal whose descriptor is 0
DeScorePlayer == [strategy |-> "neat-ai", net |-> [kind |-> "const", k |-> 9]]
FirstEmptyPlayer ==
    [strategy |-> "neat-ai", net |-> [kind |-> "first_empty", k |-> 0]]

\* the players a roster is made of; the random player draws goal 0
Pool == {RandomPlayer, DeScorePlayer, FirstEmptyPlayer}

Rosters == UNION {[1..n -> Pool] : n \in 0..MaxPlayers}

TournamentInit ==
    /\ players \in Rosters
    /\ rounds \in 0..MaxRounds
    /\ arena = {0}
    /\ pc = "start"
    /\ tround = 0
    /\ ti = 0
    /\ tj = 0
    /\ wins = <<>>
    /\ high_score = 0
    /\ total_score = 0
    /\ games = <<>>
    /\ results = <<>>
    /\ GameStart
    /\ fop = "none"
    /\ fscore = <<0, 0>>
    /\ fdesc = <<>>
    /\ fcall = NoCall
    /\ NoGoal
    /\ NoEval

TournamentNext ==
    TStart \/ TSkipSelf \/ TStartGame \/ MoveP1 \/ MoveP2 \/ TCollect

SpecTournament == TournamentInit /\ [][TournamentNext]_vars

-----------------------------------------------------------------------------
(* SpecEval: one call of eval_genomes(genomes, config)                     *)

\* the networks the genomes of a population stand for: one that always
\* scores at goal 0, one that always de-scores goal 0, one that scores at
\* the first goal whose descriptor is 0
GenomeNets ==
    {[kind |-> "const", k |-> 0], [kind |-> "const", k |-> 9],
     [kind |-> "first_empty", k |-> 0]}

\* the populations: the k-th genome has the id k
Populations ==
    UNION {{[k \in 1..n |-> [id |-> k, net |-> nets[k]]] :
               nets \in [1..n -> GenomeNets]} : n \in 0..MaxGenomes}

EvalInit ==
    /\ genomes \in Populations
    /\ fitness = [k \in 1..Len(genomes) |-> "None"]
    /\ report = [high |-> 0, num |-> 0, den |-> 1, raised |-> FALSE]
    /\ players = <<>>
    /\ rounds = 0
    /\ arena = {}
    /\ pc = "eval"
    /\ tround = 0
    /\ ti = 0
    /\ tj = 0
    /\ wins = <<>>
    /\ high_score = 0
    /\ total_score = 0
    /\ games = <<>>
    /\ results = <<>>
    /\ GameStart
    /\ fop = "none"
    /\ fscore = <<0, 0>>
    /\ fdesc = <<>>
    /\ fcall = NoCall
    /\ NoGoal

EvalNext ==
    \/ EStart
    \/ TStart
    \/ TSkipSelf
    \/ TStartGame
    \/ MoveP1
    \/ MoveP2
    \/ TCollect
    \/ EFinish

SpecEval == EvalInit /\ [][EvalNext]_vars

-----------------------------------------------------------------------------
(* Claims about a single Goal, under SpecGoal *)

\* the prefix log[1..k] holds score calls only
OnlyScores(k) == \A j \in 1..k : log[j].op = "score"

\* the number of balls a goal holds
NumTokens(gl) ==
    Cardinality({s \in {"bottom", "middle", "top"} : gl[s] \in Colors})

\* the goal after a ball of that color went into the lowest empty slot
LowestEmptyFilled(gl, color) ==
    IF gl.bottom = "." THEN [gl EXCEPT !.bottom = color]
    ELSE IF gl.middle = "." THEN [gl EXCEPT !.middle = color]
    ELSE [gl EXCEPT !.top = color]

\* the color of the topmost ball of a goal, "." when it holds none
TopmostToken(gl) ==
    IF gl.top \in Colors THEN gl.top
    ELSE IF gl.middle \in Colors THEN gl.middle
    ELSE IF gl.bottom \in Colors THEN gl.bottom
    ELSE "."

\* C1: on a fresh goal with score calls only, the 1st call returns true and
\* fills bottom, the 2nd returns true and fills middle, the 3rd returns true
\* and fills top, and every later call returns false and changes no slot.
C1_ScoreSequence ==
    \A k \in 1..Len(log) :
        OnlyScores(k) =>
            LET e == log[k] IN
            /\ k = 1 => /\ e.ret = TRUE
                        /\ e.post = [bottom |-> e.arg, middle |-> ".", top |-> "."]
            /\ k = 2 => /\ e.ret = TRUE
                        /\ e.post = [bottom |-> log[1].arg, middle |-> e.arg,
                                     top |-> "."]
            /\ k = 3 => /\ e.ret = TRUE
                        /\ e.post = [bottom |-> log[1].arg,
                                     middle |-> log[2].arg, top |-> e.arg]
            /\ k > 3 => /\ e.ret = FALSE
                        /\ e.post = e.pre
                        /\ e.post = [bottom |-> log[1].arg,
                                     middle |-> log[2].arg, top |-> log[3].arg]

\* five score calls in a row: the fourth and the fifth were refused
C1_Witness ==
    /\ Len(log) = 5
    /\ OnlyScores(5)
    /\ log[3].ret = TRUE
    /\ log[4].ret = FALSE
    /\ log[5].ret = FALSE

\* C2: in every reachable state of a goal, score returns false, changing
\* nothing, exactly when the goal holds three balls; otherwise it returns
\* true and puts the ball into the lowest empty slot.
C2_ScoreFailsIffFull ==
    \A k \in 1..Len(log) :
        log[k].op = "score" =>
            LET e == log[k] IN
            IF NumTokens(e.pre) = 3
            THEN e.ret = FALSE /\ e.post = e.pre
            ELSE e.ret = TRUE /\ e.post = LowestEmptyFilled(e.pre, e.arg)

C4_OwnedByTopmostToken ==
    \A k \in 1..Len(log) :
        log[k].op = "owned_by" =>
            /\ log[k].ret = TopmostToken(log[k].pre)
            /\ log[k].ret \in {".", "R", "B"}

-----------------------------------------------------------------------------
(* Claims about the Field, under SpecField *)

\* the eight lines of the 3x3 grid
Lines == {{0, 1, 2}, {3, 4, 5}, {6, 7, 8}, {0, 3, 6}, {1, 4, 7}, {2, 5, 8},
          {0, 4, 8}, {2, 4, 6}}

\* the slots of the field that hold a ball of that color
SlotsOf(gs, color) ==
    {sl \in GoalIdx \X {"bottom", "middle", "top"} : gs[sl[1]][sl[2]] = color}

\* the lines whose three goals all have owned_by equal to that color
LinesOf(gs, color) ==
    {ln \in Lines : \A k \in ln : Goal_owned_by(gs[k]) = color}

\* what the claim says a color scores
Total(gs, color) ==
    Cardinality(SlotsOf(gs, color)) + 6 * Cardinality(LinesOf(gs, color))

-----------------------------------------------------------------------------
(* Claims about a move and a game, under SpecMatch *)

\* the lowest 0-based position that holds the largest value of an output
FirstMax(output) ==
    LET values == {output[n] : n \in 1..NumOutputs}
        largest == CHOOSE v \in values : \A w \in values : w <= v
    IN  CHOOSE k \in 0..(NumOutputs - 1) :
            /\ output[k + 1] = largest
            /\ \A n \in 0..(k - 1) : output[n + 1] # largest

\* the balls in the whole field
FieldTokens(gs) == SlotsOf(gs, "R") \cup SlotsOf(gs, "B")

\* C6: a move of a neat-ai player, whatever the 18 outputs of its network,
\* takes the lowest index k that holds the maximum and does exactly one
\* thing: goal k .score(the player's color) for k in 0..8, goal (k-9)
\* .de_score() for k in 9..17; a maximum at index 9 de-scores goal 0 and
\* scores nothing.
C6_PolicyMove ==
    [][last'.strategy = "neat-ai" =>
         \E k \in {FirstMax(last'.output)} :
         \E color \in {IF pc = "p1" THEN "R" ELSE "B"} :
             /\ Len(last'.output) = NumOutputs
             /\ last'.color = color
             /\ k \in 0..8 =>
                   goals' = [goals EXCEPT ![k] = Goal_score(goals[k], color).goal]
             /\ k \in 9..17 =>
                   goals' = [goals EXCEPT
                               ![k - 9] = Goal_de_score(goals[k - 9]).goal]
             /\ k = 9 =>
                   /\ goals'[0].top = "-"
                   /\ goals'[0].bottom = goals[0].middle
                   /\ \A n \in GoalIdx \ {0} : goals'[n] = goals[n]
                   /\ Cardinality(FieldTokens(goals'))
                         <= Cardinality(FieldTokens(goals))
    ]_vars

\* blue's network returned negative values with the maximum at index 9, and
\* the ball red had scored in goal 0 is gone
C6_Witness ==
    /\ last.strategy = "neat-ai"
    /\ last.color = "B"
    /\ last.output = Vec({9}, -1, -2)
    /\ moves = [c \in Colors |-> 1]
    /\ goals[0] = [bottom |-> ".", middle |-> ".", top |-> "-"]

\* C7: a game is exactly 20 make_move calls on one field, red (player 1) and
\* blue (player 2) in turn for 10 rounds, whatever they choose and however
\* many moves fail; it never stops early, and before its end the player
\* whose turn it is always has a move.
C7_MatchLength ==
    /\ pc \in {"p1", "p2", "game_over"}
    /\ pc = "p1" => /\ moves["R"] = moves["B"]
                    /\ moves["R"] = rnd
                    /\ moves["R"] < 10
                    /\ (rnd > 0 => last.color = "B")
    /\ pc = "p2" => /\ moves["R"] = moves["B"] + 1
                    /\ moves["B"] = rnd
                    /\ moves["B"] < 10
                    /\ last.color = "R"
    /\ pc = "game_over" => /\ moves["R"] = 10
                           /\ moves["B"] = 10
                           /\ last.color = "B"
    /\ pc = "p1" => Player_make_move(players[ti + 1], goals, "R", arena) # {}
    /\ pc = "p2" => Player_make_move(players[tj + 1], goals, "B", arena) # {}

\* a game ended without a ball in any goal: every move of it was wasted
C7_Witness ==
    /\ pc = "game_over"
    /\ moves["R"] + moves["B"] = 20
    /\ FieldTokens(goals) = {}
    /\ goals # Field_init

-----------------------------------------------------------------------------
(* Claims about the tournament, under SpecTournament *)

PlayerIdx == 0..(NumPlayers - 1)

\* the games among the first n played in which i was red and j was blue
GamesOf(i, j, n) == {k \in 1..n : games[k] = <<i, j>>}

\* the games with a result that p won
WonBy(p) ==
    {k \in 1..Len(results) :
        \/ games[k][1] = p /\ results[k][1] > results[k][2]
        \/ games[k][2] = p /\ results[k][2] > results[k][1]}

RECURSIVE SumWins(_)
SumWins(n) == IF n = 0 THEN 0 ELSE wins[n - 1] + SumWins(n - 1)

\* the sum of both totals over the first n results
RECURSIVE SumResults(_)
SumResults(n) ==
    IF n = 0 THEN 0 ELSE results[n][1] + results[n][2] + SumResults(n - 1)

\* the largest total of either color in the results, 0 without a result
HighestResult ==
    LET totals == {results[k][c] : k \in 1..Len(results), c \in 1..2} IN
    IF totals = {} THEN 0
    ELSE CHOOSE m \in totals : \A v \in totals : v <= m

\* C8: a tournament of n players and r rounds plays, in each round, exactly
\* one game for every ordered pair (i, j) with i # j and none with i = j:
\* r*n*(n-1) games in all, 2 for 2 players and 12 for 4 players in 1 round.
C8_RoundRobin ==
    /\ \A k \in 1..Len(games) : games[k][1] # games[k][2]
    /\ pc = "returned" =>
          LET n == NumPlayers
              perRound == n * (n - 1)
          IN  /\ Len(games) = rounds * n * (n - 1)
              /\ \A r \in 1..rounds : \A i, j \in PlayerIdx :
                    Cardinality(GamesOf(i, j, r * perRound)
                                  \ GamesOf(i, j, (r - 1) * perRound))
                      = IF i # j THEN 1 ELSE 0
              /\ (n = 2 /\ rounds = 1 => Len(games) = 2)
              /\ (n = 4 /\ rounds = 1 => Len(games) = 12)

\* a tournament of four players and one round has returned
C8_Witness ==
    /\ pc = "returned"
    /\ NumPlayers = 4
    /\ rounds = 1
    /\ Len(games) = 12
    /\ Len(results) = 12

\* C9: after each game of i (red) against j (blue) wins[i] goes up by one
\* iff red's total is strictly greater, wins[j] iff blue's is, neither on a
\* tie, and no other counter changes; so the wins sum to at most the number
\* of games played and a player's final count is at most 2*(n-1)*rounds.
C9_Wins ==
    pc # "start" =>
        /\ DOMAIN wins = PlayerIdx
        /\ \A p \in PlayerIdx : wins[p] = Cardinality(WonBy(p))
        /\ SumWins(NumPlayers) <= Len(results)
        /\ Len(results) <= Len(games)
        /\ pc = "returned" =>
              /\ \A p \in PlayerIdx : wins[p] <= 2 * (NumPlayers - 1) * rounds
              /\ (NumPlayers = 4 /\ rounds = 1 => \A p \in PlayerIdx : wins[p] <= 6)
              /\ (NumPlayers = 2 /\ rounds = 1 => SumWins(2) <= 2)

\* a tournament has returned in which red won a game, blue won a game and a
\* game was tied
C9_Witness ==
    /\ pc = "returned"
    /\ \E a, b, c \in 1..Len(results) :
          /\ results[a][1] > results[a][2]
          /\ results[b][1] < results[b][2]
          /\ results[c][1] = results[c][2]
    /\ SumWins(NumPlayers) < Len(results)

\* C10: the high score is the largest total of either color over the games
\* played (0 without a game) and the grand total is the sum of both totals
\* over these games; both are naturals, and the high score is at least every
\* total seen so far.
C10_HighAndTotal ==
    pc # "start" =>
        /\ high_score = HighestResult
        /\ total_score = SumResults(Len(results))
        /\ high_score \in Nat
        /\ total_score \in Nat
        /\ \A k \in 1..Len(results) :
              high_score >= results[k][1] /\ high_score >= results[k][2]
        /\ (Len(results) = 0 => high_score = 0 /\ total_score = 0)

\* after a game that blue won with the largest total so far, more games
\* were played
C10_Witness ==
    /\ Len(results) >= 2
    /\ results[1][2] > results[1][1]
    /\ high_score = results[1][2]
    /\ \A k \in 1..Len(results) : results[k][1] < high_score
    /\ total_score > high_score

\* the digit of a slot in the descriptor
Digit(slot) == IF slot = "R" THEN 2 ELSE IF slot = "B" THEN 1 ELSE 0

\* the goals seen by the calls made so far
GoalsSeen == {Goal_init} \cup {log[j].post : j \in 1..Len(log)}

\* C16: in every goal reached by calls of score and de_score the balls form
\* a run that starts at the bottom: a ball in the middle slot has a ball
\* below it, and a ball in the top slot has a ball in the middle slot.
C16_StackDiscipline ==
    \A gl \in GoalsSeen \cup {g} :
        /\ (gl.middle \in Colors => gl.bottom \in Colors)
        /\ (gl.top \in Colors => gl.middle \in Colors)

\* a full goal of both colors was de-scored and still holds two balls
C16_Witness ==
    \E j \in 1..Len(log) :
        /\ log[j].op = "de_score"
        /\ NumTokens(log[j].pre) = 3
        /\ log[j].pre.bottom # log[j].pre.middle
        /\ g = log[j].post
        /\ g.bottom \in Colors
        /\ g.middle \in Colors

\* C17: two different goals reached by calls of score and de_score never
\* have the same descriptor.
C17_DescriptorUnique ==
    \A j, k \in 1..Len(log) :
        (/\ log[j].op = "descriptor"
         /\ log[k].op = "descriptor"
         /\ log[j].pre # log[k].pre) => log[j].ret # log[k].ret

\* C18: 1000 times the descriptor of a goal is 100 * d(top) + 10 * d(middle)
\* + d(bottom), where d is 2 for red, 1 for blue and 0 for an empty slot or
\* the slot that de_score marked, a code in 0..222; get_descriptors returns
\* the nine codes in the order of the goals.
C18_DescriptorValue ==
    fop = "get_descriptors" =>
        /\ Len(fdesc) = NumGoals
        /\ \A k \in GoalIdx :
              /\ fdesc[k + 1] = 100 * Digit(goals[k].top)
                                 + 10 * Digit(goals[k].middle)
                                 + Digit(goals[k].bottom)
              /\ fdesc[k + 1] \in 0..222

\* the descriptors were read of a field with a goal of two balls under the
\* slot that de_score marked, and a goal with a single red ball
C18_Witness ==
    /\ fop = "get_descriptors"
    /\ \E k \in GoalIdx :
          /\ goals[k] = [bottom |-> "R", middle |-> "B", top |-> "-"]
          /\ fdesc[k + 1] = 12
    /\ \E k \in GoalIdx :
          /\ goals[k] = [bottom |-> "R", middle |-> ".", top |-> "."]
          /\ fdesc[k + 1] = 2

C12_OutOfRangeRaises ==
    [][fcall'.goal \notin GoalIdx => fcall'.raised /\ goals' = goals]_vars

\* C13: a move that scores into a goal holding three balls, or de-scores a
\* goal holding no ball, leaves every slot of the field as it was, and the
\* game goes on to the next move.
C13_WastedMoveNoChange ==
    [][\E k \in {IF last'.strategy = "random"
                 THEN last'.draw
                 ELSE FirstMax(last'.output)} :
         (\/ k \in 0..8 /\ NumTokens(goals[k]) = 3
          \/ k \in 9..17 /\ NumTokens(goals[k - 9]) = 0)
         => /\ goals' = goals
            /\ pc' # pc
            /\ pc' \in {"p1", "p2", "game_over"}
    ]_vars

\* C14: every game of a tournament starts on a field of its own with nine
\* empty goals, so nothing of an earlier game is seen in it; a field is
\* changed by the moves of the game played on it only, and once the game is
\* over it stays as it is until the next game takes a new field.
C14_OwnField ==
    [][/\ (pc = "loop" /\ pc' = "p1") =>
             /\ goals' = Field_init
             /\ \A k \in GoalIdx :
                   /\ goals'[k].bottom = "."
                   /\ goals'[k].middle = "."
                   /\ goals'[k].top = "."
       /\ goals' # goals =>
             \/ pc \in {"p1", "p2"}
             \/ pc = "loop" /\ pc' = "p1"
    ]_vars

\* a second game begins on an empty field, after a game that left balls on
\* its field
C14_Witness ==
    /\ Len(games) = 2
    /\ pc = "p1"
    /\ rnd = 0
    /\ goals = Field_init
    /\ results[1][1] + results[1][2] > 0

\* the points get_score gives a color on top of one per ball
LineBonus(gs, color) ==
    Field_get_score(gs)[IF color = "R" THEN 1 ELSE 2]
    - Cardinality(SlotsOf(gs, color))

\* C15, as claimed: in no field reached in a game is one line owned by red
\* and another line owned by blue.
C15_NeverBothBonuses ==
    ~(LinesOf(goals, "R") # {} /\ LinesOf(goals, "B") # {})

\* C15, amended: in every field reached in a game, a line owned by red and
\* a line owned by blue share no goal; get_score gives each color 6 points
\* for each line it owns; when both colors own a line, the lines owned
\* are at most three and share no goal, so the points for lines are at most
\* 18 together.
C15_BonusLinesDisjoint ==
    /\ \A lr \in LinesOf(goals, "R"), lb \in LinesOf(goals, "B") :
          lr \cap lb = {}
    /\ \A color \in Colors :
          LineBonus(goals, color)
             = RowPoints * Cardinality(LinesOf(goals, color))
    /\ (LinesOf(goals, "R") # {} /\ LinesOf(goals, "B") # {}) =>
          /\ LineBonus(goals, "R") + LineBonus(goals, "B") <= 3 * RowPoints
          /\ \A la, lb \in LinesOf(goals, "R") \cup LinesOf(goals, "B") :
                la = lb \/ la \cap lb = {}

\* red owns the goals 0, 1, 2 and blue owns the goals 3, 4, 5, and both get
\* the points of a line
C15_Witness ==
    /\ {0, 1, 2} \in LinesOf(goals, "R")
    /\ {3, 4, 5} \in LinesOf(goals, "B")
    /\ LineBonus(goals, "R") = RowPoints
    /\ LineBonus(goals, "B") = RowPoints
    /\ moves["R"] + moves["B"] <= 2 * NumRounds

-----------------------------------------------------------------------------
(* Claims about eval_genomes, under SpecEval *)

\* C11: when eval_genomes has returned, the fitness of the k-th genome is
\* the number of games won, in the one tournament of one round over all the
\* players, by the player built from that genome, and 0 when that player
\* won no game.
C11_FitnessWriteBack ==
    pc = "eval_done" =>
        /\ Len(fitness) = Len(genomes)
        /\ Len(players) = Len(genomes)
        /\ rounds = 1
        /\ Len(games) = Len(genomes) * (Len(genomes) - 1)
        /\ Len(results) = Len(games)
        /\ \A k \in 1..Len(genomes) :
              /\ players[k].net = genomes[k].net
              /\ fitness[k] = Cardinality(WonBy(k - 1))
              /\ (WonBy(k - 1) = {} => fitness[k] = 0)

\* eval_genomes has returned for three genomes: the player of the first
\* won more games than the player of the last, and the player of the second
\* won none
C11_Witness ==
    /\ pc = "eval_done"
    /\ Len(genomes) = 3
    /\ Len(games) = 6
    /\ fitness[1] > fitness[3]
    /\ fitness[2] = 0
    /\ WonBy(0) # {}
    /\ WonBy(1) = {}

\* C19: for two or more genomes, the average that eval_genomes prints is
\* the grand total of the tournament divided by the number of games played
\* in it, n * (n - 1), and printing it raises no error.
C19_AveragePerMatch ==
    (pc = "eval_done" /\ Len(genomes) >= 2) =>
        /\ ~report.raised
        /\ Len(games) = Len(genomes) * (Len(genomes) - 1)
        /\ report.num * Len(games) = SumResults(Len(results)) * report.den

=============================================================================
